---------------------------- MODULE Spec2Model ----------------------------
(***************************************************************************)
(* A model of use-model's validation core:                                 *)
(*   normalizeValue (lib/normalize-value.ts)  raw value -> {type, value}   *)
(*   validate       (lib/validate-data.ts)    data, rules -> {valid,errors}*)
(* JavaScript values are records [k, c, s, n]: k the runtime kind, c the   *)
(* class of a number, s the characters of a string, n a number in tenths   *)
(* (or the size of an array / file).                                       *)
(***************************************************************************)
EXTENDS Integers, Sequences, FiniteSets, TLC

\* ------------------------------------------------------------------ bounds
MaxStrLen == 3
MaxTenths == 12
MaxRules == 3

\* ------------------------------------------------------- JavaScript values
Undefined == [k |-> "undefined", c |-> "", s |-> <<>>, n |-> 0]
Null == [k |-> "null", c |-> "", s |-> <<>>, n |-> 0]
Str(chars) == [k |-> "string", c |-> "", s |-> chars, n |-> 0]
Num(class, tenths) == [k |-> "number", c |-> class, s |-> <<>>, n |-> tenths]
Bool(b) == [k |-> "boolean", c |-> "", s |-> <<>>, n |-> IF b THEN 1 ELSE 0]
Arr(len) == [k |-> "array", c |-> "", s |-> <<>>, n |-> len]
FileOf(size) == [k |-> "file", c |-> "", s |-> <<>>, n |-> size]
PlainObject == [k |-> "object", c |-> "", s |-> <<>>, n |-> 0]
ObjectConstructor == [k |-> "function", c |-> "", s |-> <<>>, n |-> 0]
ObjectPrototype == [k |-> "object", c |-> "", s |-> <<>>, n |-> 1]

NaN == Num("nan", 0)
PosInfinity == Num("inf", 0)
NegInfinity == Num("ninf", 0)
NegZero == Num("negzero", 0)

\* typeof value
Typeof(value) ==
  CASE value.k = "undefined" -> "undefined"
    [] value.k = "string" -> "string"
    [] value.k = "number" -> "number"
    [] value.k = "boolean" -> "boolean"
    [] value.k = "function" -> "function"
    [] OTHER -> "object"

\* ------------------------------------------------------ String.prototype.trim
WhiteSpace == {" ", "\t", "\n"}

RECURSIVE TrimStart(_)
TrimStart(s) ==
  IF s # <<>> /\ Head(s) \in WhiteSpace THEN TrimStart(Tail(s)) ELSE s

RECURSIVE TrimEnd(_)
TrimEnd(s) ==
  IF s # <<>> /\ s[Len(s)] \in WhiteSpace
  THEN TrimEnd(SubSeq(s, 1, Len(s) - 1))
  ELSE s

\* a trim that removes one whitespace character at each end only
TrimOne(s) ==
  LET a == IF s # <<>> /\ Head(s) \in WhiteSpace THEN Tail(s) ELSE s
  IN  IF a # <<>> /\ a[Len(a)] \in WhiteSpace
      THEN SubSeq(a, 1, Len(a) - 1)
      ELSE a

Trim(s) == TrimEnd(TrimStart(s))

\* ------------------------------------------- Number -> String -> parseFloat
Digits == <<"0", "1", "2", "3", "4", "5", "6", "7", "8", "9">>
IsDigit(ch) == \E i \in 1..10 : Digits[i] = ch
DigitVal(ch) == (CHOOSE i \in 1..10 : Digits[i] = ch) - 1
InfinityChars == <<"I", "n", "f", "i", "n", "i", "t", "y">>

RECURSIVE NatToChars(_)
NatToChars(m) ==
  IF m < 10 THEN <<Digits[m + 1]>>
  ELSE NatToChars(m \div 10) \o <<Digits[(m % 10) + 1]>>

\* ToString applied to a number (the argument conversion parseFloat performs)
NumberToString(value) ==
  CASE value.c = "nan" -> <<"N", "a", "N">>
    [] value.c = "inf" -> InfinityChars
    [] value.c = "ninf" -> <<"-">> \o InfinityChars
    [] value.c = "negzero" -> <<"0">>
    [] OTHER ->
       LET mag == IF value.n < 0 THEN 0 - value.n ELSE value.n
           sign == IF value.n < 0 THEN <<"-">> ELSE <<>>
           frac == IF mag % 10 = 0 THEN <<>> ELSE <<".", Digits[(mag % 10) + 1]>>
       IN  sign \o NatToChars(mag \div 10) \o frac

IsPrefix(p, s) == Len(p) <= Len(s) /\ SubSeq(s, 1, Len(p)) = p

\* the longest prefix of s made of decimal digits
RECURSIVE DigitRun(_)
DigitRun(s) ==
  IF s # <<>> /\ IsDigit(Head(s)) THEN <<Head(s)>> \o DigitRun(Tail(s)) ELSE <<>>

RECURSIVE CharsToNat(_)
CharsToNat(ds) ==
  IF ds = <<>> THEN 0
  ELSE 10 * CharsToNat(SubSeq(ds, 1, Len(ds) - 1)) + DigitVal(ds[Len(ds)])

\* parseFloat on a character string; the result keeps one fractional digit
ParseFloatChars(str) ==
  LET t == TrimStart(str)
      neg == t # <<>> /\ Head(t) = "-"
      body == IF t # <<>> /\ Head(t) \in {"-", "+"} THEN Tail(t) ELSE t
      ip == DigitRun(body)
      rest == SubSeq(body, Len(ip) + 1, Len(body))
      fp == IF rest # <<>> /\ Head(rest) = "." THEN DigitRun(Tail(rest)) ELSE <<>>
      mag == 10 * CharsToNat(ip) + (IF fp = <<>> THEN 0 ELSE DigitVal(fp[1]))
  IN  IF IsPrefix(InfinityChars, body)
      THEN (IF neg THEN NegInfinity ELSE PosInfinity)
      ELSE IF ip = <<>> /\ fp = <<>> THEN NaN
      ELSE IF mag = 0 THEN (IF neg THEN NegZero ELSE Num("fin", 0))
      ELSE Num("fin", IF neg THEN 0 - mag ELSE mag)

\* parseFloat(value) for a number value
ParseFloat(value) == ParseFloatChars(NumberToString(value))

\* ------------------------------------------------------------------- host
\* moduleExports: typeof module !== "undefined" && module.exports is truthy
\* fileDefined:   the global File constructor exists
Hosts == [moduleExports : BOOLEAN, fileDefined : BOOLEAN]

mode(h) == IF h.moduleExports THEN "node" ELSE "browser"

\* ------------------------------------------------------------ normalizeValue
Returned(type, normal) ==
  [thrown |-> FALSE, error |-> "", type |-> type, value |-> normal]
Threw(error) ==
  [thrown |-> TRUE, error |-> error, type |-> "", value |-> Undefined]

\* the default branch: array, then file, then nullish
DefaultBranch(value, h) ==
  LET t1 == IF value.k = "array" THEN "array" ELSE Typeof(value)
  IN  IF mode(h) = "browser" /\ ~h.fileDefined
      THEN Threw("ReferenceError")
      ELSE LET t2 == IF mode(h) = "browser" /\ value.k = "file" THEN "file" ELSE t1
           IN  IF value \in {Undefined, Null}
               THEN Returned("nullish", Null)
               ELSE Returned(t2, value)

normalizeValue(value, h) ==
  CASE Typeof(value) = "string" -> Returned("string", Str(Trim(value.s)))
    [] Typeof(value) = "number" -> Returned("number", ParseFloat(value))
    [] OTHER -> DefaultBranch(value, h)

\* ---------------------------------------------------------------- objects
\* An object is the function from its own keys to their values.
EmptyObject == [key \in {} |-> ""]

\* obj[key] read: an own property, else the one inherited from Object.prototype
Get(obj, key) ==
  IF key \in DOMAIN obj THEN obj[key]
  ELSE CASE key = "constructor" -> ObjectConstructor
         [] key = "__proto__" -> ObjectPrototype
         [] OTHER -> Undefined

\* obj[key] = message on an object literal. The key "__proto__" reaches the
\* setter inherited from Object.prototype, which ignores a string and adds
\* no own property.
SetProperty(obj, key, message) ==
  IF key = "__proto__" THEN obj
  ELSE [f \in (DOMAIN obj) \cup {key} |-> IF f = key THEN message ELSE obj[f]]

\* ----------------------------------------------------------------- inputs
Chars == {" ", "a"}
Strings == UNION {[1..m -> Chars] : m \in 0..MaxStrLen}
Numbers ==
  {Num("fin", t) : t \in (0 - MaxTenths)..MaxTenths}
    \cup {NaN, PosInfinity, NegInfinity, NegZero}
Values ==
  {Str(s) : s \in Strings} \cup Numbers
    \cup {Undefined, Null, Bool(TRUE), Bool(FALSE), Arr(0), Arr(2),
          FileOf(0), FileOf(5), PlainObject, ObjectConstructor}

\* keys a data snapshot may own, and the values it may hold
DataKeys == {"a", "b"}
DataValues == {Str(<<" ", "x">>), Null}
DataSamples == UNION {[S -> DataValues] : S \in SUBSET DataKeys}

\* field names a rule-set may declare
RuleFields == {"a", "constructor", "__proto__"}

\* caller-supplied evaluators, named by what they do
RuleSamples == {"failIfNullish", "alwaysFail", "alwaysPass", "throws"}

RuleListsUpTo(n) == UNION {[1..m -> RuleSamples] : m \in 0..n}
RuleLists == RuleListsUpTo(MaxRules)
FieldRules == [field : RuleFields, list : RuleLists]

\* rule-sets in for-in (insertion) order: at most two distinct fields, at
\* most MaxRules rules in all
RuleSets ==
  {<<>>} \cup {<<e>> : e \in FieldRules}
    \cup UNION {{<<e, [field |-> g, list |-> l]>> :
                   g \in RuleFields \ {e.field},
                   l \in RuleListsUpTo(MaxRules - Len(e.list))} :
                e \in FieldRules}

RECURSIVE TotalRules(_)
TotalRules(rs) ==
  IF rs = <<>> THEN 0 ELSE Len(Head(rs).list) + TotalRules(Tail(rs))

WellFormedRules(rs) ==
  /\ \A i, j \in DOMAIN rs : i # j => rs[i].field # rs[j].field
  /\ TotalRules(rs) <= MaxRules

DeclaredFields(rs) == {rs[i].field : i \in DOMAIN rs}

\* rule(normalizedValue): the evaluator's { pass, message }, or its throw
Evaluate(rule, normal) ==
  CASE rule = "failIfNullish" ->
         [thrown |-> FALSE, error |-> "", pass |-> normal.type # "nullish",
          message |-> "m1"]
    [] rule = "alwaysFail" ->
         [thrown |-> FALSE, error |-> "", pass |-> FALSE, message |-> "m2"]
    [] rule = "alwaysPass" ->
         [thrown |-> FALSE, error |-> "", pass |-> TRUE, message |-> "m3"]
    [] OTHER ->
         [thrown |-> TRUE, error |-> "RuleError", pass |-> FALSE, message |-> ""]

\* ----------------------------------------------------------------- validate
InitialValidation == [errors |-> EmptyObject, valid |-> TRUE]

\* a validate that catches an evaluator's exception and reports it as an error
RuleStepCatch(v, field, outcome) ==
  IF outcome.thrown
  THEN [pc |-> "rules", exception |-> "",
        validation |-> [errors |-> SetProperty(v.errors, field, outcome.error),
                        valid |-> FALSE]]
  ELSE IF ~outcome.pass
  THEN [pc |-> "rules", exception |-> "",
        validation |-> [errors |-> SetProperty(v.errors, field, outcome.message),
                        valid |-> FALSE]]
  ELSE [pc |-> "rules", exception |-> "", validation |-> v]

\* the body of the forEach callback, given what rule(normalizedValue) did
RuleStep(v, field, outcome) ==
  IF outcome.thrown
  THEN [pc |-> "thrown", exception |-> outcome.error, validation |-> v]
  ELSE IF ~outcome.pass
  THEN [pc |-> "rules", exception |-> "",
        validation |-> [errors |-> SetProperty(v.errors, field, outcome.message),
                        valid |-> FALSE]]
  ELSE [pc |-> "rules", exception |-> "", validation |-> v]

RECURSIVE ReportUnknown(_, _)
ReportUnknown(errors, keys) ==
  IF keys = {} THEN errors
  ELSE LET key == CHOOSE x \in keys : TRUE
       IN  ReportUnknown(SetProperty(errors, key, "unknown"), keys \ {key})

\* a validate that also rejects the data keys no rule declares
ReturnStrict(v, d, rs) ==
  LET unknown == (DOMAIN d) \ DeclaredFields(rs)
  IN  IF unknown = {} THEN v
      ELSE [errors |-> ReportUnknown(v.errors, unknown), valid |-> FALSE]

\* return validation
ReturnValue(v, d, rs) == v

VARIABLES host, pc, data, rules, fi, ri, normalizedValue, validation,
          normalized, calls, exception, result, run, first,
          input, out1, out2

vars == <<host, pc, data, rules, fi, ri, normalizedValue, validation,
          normalized, calls, exception, result, run, first,
          input, out1, out2>>

normalizeVars == <<input, out1, out2>>
validateVars == <<data, rules, fi, ri, normalizedValue, validation,
                  normalized, calls, exception, result, run, first>>

NoNormal == [type |-> "", value |-> Undefined]
NoFirst == [data |-> EmptyObject, pc |-> "", result |-> <<>>, exception |-> ""]

\* validate(data, rules) is entered
Enter(d) ==
  /\ data = d
  /\ pc = "loop"
  /\ fi = 1
  /\ ri = 1
  /\ normalizedValue = NoNormal
  /\ validation = InitialValidation
  /\ normalized = <<>>
  /\ calls = <<>>
  /\ exception = ""
  /\ result = <<>>

Init ==
  /\ host \in Hosts
  /\ rules \in {rs \in RuleSets : WellFormedRules(rs)}
  /\ \E d \in DataSamples : Enter(d)
  /\ run = 1
  /\ first = NoFirst
  /\ input = Undefined
  /\ out1 = Threw("")
  /\ out2 = Threw("")

\* for (const field in rules): normalizedValue = normalizeValue(data[field])
NextField ==
  /\ pc = "loop"
  /\ fi <= Len(rules)
  /\ LET field == rules[fi].field
         nv == normalizeValue(Get(data, field), host)
     IN  /\ normalized' = Append(normalized, field)
         /\ IF nv.thrown
            THEN /\ pc' = "thrown"
                 /\ exception' = nv.error
                 /\ UNCHANGED <<normalizedValue, ri>>
            ELSE /\ pc' = "rules"
                 /\ normalizedValue' = [type |-> nv.type, value |-> nv.value]
                 /\ ri' = 1
                 /\ UNCHANGED exception
  /\ UNCHANGED <<host, data, rules, fi, validation, calls, result, run, first>>
  /\ UNCHANGED normalizeVars

\* one forEach iteration: result = rule(normalizedValue); if (!result.pass) ...
CallRule ==
  /\ pc = "rules"
  /\ ri <= Len(rules[fi].list)
  /\ LET field == rules[fi].field
         outcome == Evaluate(rules[fi].list[ri], normalizedValue)
         step == RuleStep(validation, field, outcome)
     IN  /\ calls' = Append(calls, [field |-> field, index |-> ri,
                                    arg |-> normalizedValue,
                                    thrown |-> outcome.thrown,
                                    error |-> outcome.error,
                                    pass |-> outcome.pass,
                                    message |-> outcome.message])
         /\ validation' = step.validation
         /\ pc' = step.pc
         /\ exception' = step.exception
         /\ ri' = IF step.pc = "rules" THEN ri + 1 ELSE ri
  /\ UNCHANGED <<host, data, rules, fi, normalizedValue, normalized, result,
                 run, first>>
  /\ UNCHANGED normalizeVars

\* forEach is done: on to the next key of rules
EndField ==
  /\ pc = "rules"
  /\ ri > Len(rules[fi].list)
  /\ fi' = fi + 1
  /\ pc' = "loop"
  /\ UNCHANGED <<host, data, rules, ri, normalizedValue, validation,
                 normalized, calls, exception, result, run, first>>
  /\ UNCHANGED normalizeVars

\* the loop is done: return validation
Return ==
  /\ pc = "loop"
  /\ fi > Len(rules)
  /\ pc' = "returned"
  /\ result' = <<ReturnValue(validation, data, rules)>>
  /\ UNCHANGED <<host, data, rules, fi, ri, normalizedValue, validation,
                 normalized, calls, exception, run, first>>
  /\ UNCHANGED normalizeVars

\* the caller validates a second snapshot, equal to the first on every
\* declared field, against the same rules
CallAgain ==
  /\ pc \in {"returned", "thrown"}
  /\ run = 1
  /\ \E d \in DataSamples :
       /\ d # data
       /\ \A f \in DeclaredFields(rules) : Get(d, f) = Get(data, f)
       /\ data' = d
  /\ first' = [data |-> data, pc |-> pc, result |-> result,
               exception |-> exception]
  /\ run' = 2
  /\ pc' = "loop"
  /\ fi' = 1
  /\ ri' = 1
  /\ normalizedValue' = NoNormal
  /\ validation' = InitialValidation
  /\ normalized' = <<>>
  /\ calls' = <<>>
  /\ exception' = ""
  /\ result' = <<>>
  /\ UNCHANGED <<host, rules>>
  /\ UNCHANGED normalizeVars

Next == NextField \/ CallRule \/ EndField \/ Return \/ CallAgain

Spec == Init /\ [][Next]_vars

\* ------------------------------------------------- normalizeValue on its own
InitNormalize ==
  /\ host \in Hosts
  /\ input \in {v \in Values : v.k = "file" => host.fileDefined}
  /\ pc = "n0"
  /\ out1 = Threw("")
  /\ out2 = Threw("")
  /\ rules = <<>>
  /\ data = EmptyObject
  /\ fi = 1
  /\ ri = 1
  /\ normalizedValue = NoNormal
  /\ validation = InitialValidation
  /\ normalized = <<>>
  /\ calls = <<>>
  /\ exception = ""
  /\ result = <<>>
  /\ run = 1
  /\ first = NoFirst

\* normalizeValue(input)
NormalizeOnce ==
  /\ pc = "n0"
  /\ out1' = normalizeValue(input, host)
  /\ pc' = "n1"
  /\ UNCHANGED <<host, input, out2>>
  /\ UNCHANGED validateVars

\* normalizeValue(normalizeValue(input).value)
NormalizeAgain ==
  /\ pc = "n1"
  /\ ~out1.thrown
  /\ out2' = normalizeValue(out1.value, host)
  /\ pc' = "n2"
  /\ UNCHANGED <<host, input, out1>>
  /\ UNCHANGED validateVars

NextNormalize == NormalizeOnce \/ NormalizeAgain

SpecNormalize == InitNormalize /\ [][NextNormalize]_vars

\* ------------------------------------------------------------ the claims
Finished == pc \in {"returned", "thrown"}
NoEvaluatorThrew == \A i \in DOMAIN calls : ~calls[i].thrown
FailingCalls(f) == {i \in DOMAIN calls : calls[i].field = f /\ ~calls[i].pass}
FailedFields == {calls[i].field : i \in {j \in DOMAIN calls : ~calls[j].pass}}
Max(S) == CHOOSE x \in S : \A y \in S : y <= x
NullishNormal == [type |-> "nullish", value |-> Null]

\* every call validate is to make, in order: <<field, index>> pairs
RECURSIVE ExpectedCalls(_)
ExpectedCalls(rs) ==
  IF rs = <<>> THEN <<>>
  ELSE [i \in 1..Len(Head(rs).list) |-> <<Head(rs).field, i>>]
         \o ExpectedCalls(Tail(rs))

\* C1: the returned valid is true iff no rule returned pass = false, and iff
\* the returned errors has no key.
C1_ValidIffNoFailure ==
  pc = "returned" =>
    /\ result[1].valid <=> (\A i \in DOMAIN calls : calls[i].pass)
    /\ result[1].valid <=> (DOMAIN result[1].errors = {})

\* C2: for every field with a failing rule, the returned errors[field] is the
\* message of the last failing rule of that field.
C2_LastFailingMessage ==
  pc = "returned" =>
    \A f \in FailedFields :
      /\ f \in DOMAIN result[1].errors
      /\ result[1].errors[f] = calls[Max(FailingCalls(f))].message

\* C3: when no evaluator throws, validate runs every rule of every declared
\* field exactly once, in order, each field's rules on the one value
\* normalized for it; nothing makes it skip a rule.
C3_EveryRuleRunsOnce ==
  (Finished /\ NoEvaluatorThrew) =>
    /\ [i \in DOMAIN calls |-> <<calls[i].field, calls[i].index>>]
         = ExpectedCalls(rules)
    /\ normalized = [i \in DOMAIN rules |-> rules[i].field]
    /\ \A i, j \in DOMAIN calls :
         calls[i].field = calls[j].field => calls[i].arg = calls[j].arg

\* C4: only declared fields are normalized, passed to a rule or reported, and
\* a second snapshot that agrees with the first on every declared field ends
\* validate the same way, with the same { valid, errors }.
C4_OnlyDeclaredFieldsMatter ==
  /\ \A i \in DOMAIN normalized : normalized[i] \in DeclaredFields(rules)
  /\ \A i \in DOMAIN calls : calls[i].field \in DeclaredFields(rules)
  /\ DOMAIN validation.errors \subseteq DeclaredFields(rules)
  /\ pc = "returned" => DOMAIN result[1].errors \subseteq DeclaredFields(rules)
  /\ (run = 2 /\ Finished) =>
       /\ first.pc = pc
       /\ first.result = result
       /\ first.exception = exception

C4_Witness ==
  /\ run = 2
  /\ pc = "returned"
  /\ first.data # data
  /\ (DOMAIN data) \ DeclaredFields(rules) # {}
  /\ ~result[1].valid
  /\ DOMAIN result[1].errors # {}

\* C5: the keys of the returned errors are exactly the declared fields that
\* have a failing rule.
C5_ErrorKeysAreFailedFields ==
  pc = "returned" => DOMAIN result[1].errors = FailedFields

\* C6: a rule of a field whose key is absent from data is invoked with
\* { type: "nullish", value: null }, and by the time validate returns every
\* rule of such a field has been invoked.
C6_AbsentFieldIsNullish ==
  /\ \A i \in DOMAIN calls :
       calls[i].field \notin DOMAIN data => calls[i].arg = NullishNormal
  /\ pc = "returned" =>
       \A k \in DOMAIN rules :
         rules[k].field \notin DOMAIN data =>
           \A m \in DOMAIN rules[k].list :
             \E i \in DOMAIN calls :
               calls[i].field = rules[k].field /\ calls[i].index = m

\* C7: undefined and null normalize to { "nullish", null }, and nothing else
\* is tagged "nullish".
C7_NullishIffUndefinedOrNull ==
  pc \in {"n1", "n2"} =>
    /\ input \in {Undefined, Null} =>
         (~out1.thrown /\ out1.type = "nullish" /\ out1.value = Null)
    /\ (~out1.thrown /\ out1.type = "nullish") => input \in {Undefined, Null}

\* C8: normalizeValue never throws, for any value in any host.
C8_NormalizeNeverThrows ==
  pc \in {"n1", "n2"} => ~out1.thrown

\* C9: an exception thrown by an evaluator ends validate at once: it is the
\* exception the caller gets, nothing is returned, it is not in errors, and
\* no later rule or field is run.
C9_EvaluatorExceptionPropagates ==
  \A i \in DOMAIN calls :
    calls[i].thrown =>
      /\ i = Len(calls)
      /\ pc = "thrown"
      /\ exception = calls[i].error
      /\ result = <<>>
      /\ normalized[Len(normalized)] = calls[i].field
      /\ \A f \in DOMAIN validation.errors : validation.errors[f] # calls[i].error

C9_Witness ==
  /\ pc = "thrown"
  /\ calls # <<>>
  /\ calls[Len(calls)].thrown
  /\ ~validation.valid
  /\ ri < Len(rules[fi].list)
  /\ fi < Len(rules)

\* C10: normalizing the value of a normalized string or number changes neither
\* the tag nor the value.
C10_NormalizeIdempotent ==
  /\ (pc \in {"n1", "n2"} /\ input.k \in {"string", "number"}) =>
       (~out1.thrown /\ out1.type = input.k)
  /\ (pc = "n2" /\ input.k \in {"string", "number"}) =>
       (~out2.thrown /\ out2.type = out1.type /\ out2.value = out1.value)

C10_Witness ==
  /\ pc = "n2"
  /\ input.k = "string"
  /\ out1.value # input
  /\ out1.value.s # <<>>
  /\ out2.value = out1.value

=============================================================================
